---- MODULE Spec2Model ----
(***************************************************************************)
(* Model of src/script.js: the chat form's submit handler, the             *)
(* conversation history, fetchChatCompletion (worker proxy first, direct   *)
(* OpenAI call as fallback), timeoutFetch and the local key discovery.     *)
(*                                                                         *)
(* JavaScript runs each task to completion, so one action is one task:     *)
(* the code from one await's resumption to the next suspension.  The two   *)
(* program counters "call" and "settled" are inside a task (the call of    *)
(* fetchChatCompletion, and the microtask that resumes the handler); no    *)
(* other action is enabled while a handler is there.                       *)
(*                                                                         *)
(* A string is a sequence of tokens: " " is a whitespace character, any    *)
(* other token is a run of non-whitespace text.                            *)
(***************************************************************************)
EXTENDS Integers, Sequences, FiniteSets, TLC

(* ------------------------------ bounds --------------------------------- *)
\* submit events dispatched in one run (accepted or rejected)
MaxSubmits == 2
\* handler invocations that may be suspended at the same time
MaxHandlers == 2
\* length of the text typed into the input
MaxInputLen == 2
\* one Tick of the clock, in milliseconds
TickMs == 4000
\* the clock of a call stops counting here
MaxTicks == 4

(* ------------------------- program constants --------------------------- *)
ProxyTimeoutMs == 8000
DirectTimeoutMs == 12000

Procs == 1..MaxHandlers

(* ------------------------------ strings -------------------------------- *)
WS == " "
Chars == {WS, "h"}

RECURSIVE TrimStart(_)
TrimStart(s) ==
  IF s # <<>> /\ Head(s) = WS THEN TrimStart(Tail(s)) ELSE s

RECURSIVE TrimEnd(_)
TrimEnd(s) ==
  IF s # <<>> /\ s[Len(s)] = WS THEN TrimEnd(SubSeq(s, 1, Len(s) - 1)) ELSE s

\* String.prototype.trim
Trim(s) == TrimEnd(TrimStart(s))

(* --------------------------- JSON values ------------------------------- *)
\* t: "undef" (absent), "null", "str", "num", "obj" (an object without a
\* message field), "objm" (an object whose message field is the string s).
Undef == [t |-> "undef", s |-> <<>>]
Null == [t |-> "null", s |-> <<>>]
Str(s) == [t |-> "str", s |-> s]
Num(d) == [t |-> "num", s |-> <<d>>]
Obj == [t |-> "obj", s |-> <<>>]
ObjMsg(s) == [t |-> "objm", s |-> s]

\* JavaScript truthiness
Truthy(v) ==
  CASE v.t = "undef" -> FALSE
    [] v.t = "null" -> FALSE
    [] v.t = "str" -> v.s # <<>>
    [] v.t = "num" -> v.s # <<"0">>
    [] OTHER -> TRUE

\* v.message
MessageOf(v) == IF v.t = "objm" THEN Str(v.s) ELSE Undef

\* String(v), as new Error(v) and template strings convert
ToStr(v) ==
  CASE v.t = "undef" -> <<"undefined">>
    [] v.t = "null" -> <<"null">>
    [] v.t = "str" -> v.s
    [] v.t = "num" -> v.s
    [] OTHER -> <<"[object Object]">>

\* new Error(v).message: an undefined message is the empty string
ErrorMessage(v) == IF v.t = "undef" THEN <<>> ELSE ToStr(v)

\* JSON.stringify of a field value
StringifyVal(v) ==
  CASE v.t = "null" -> <<"null">>
    [] v.t = "str" -> <<"\"">> \o v.s \o <<"\"">>
    [] v.t = "num" -> v.s
    [] v.t = "obj" -> <<"{}">>
    [] v.t = "objm" -> <<"{\"message\":\"">> \o v.s \o <<"\"}">>
    [] OTHER -> <<>>

\* data.choices: "undef" (absent), "empty" ([]), "nomsg" ([{}]) or
\* "msg" ([{message: {content: c}}])
NoChoices == [t |-> "undef", c |-> Undef]
EmptyChoices == [t |-> "empty", c |-> Undef]
ChoiceNoMessage == [t |-> "nomsg", c |-> Undef]
Choice(c) == [t |-> "msg", c |-> c]

StringifyChoices(ch) ==
  CASE ch.t = "empty" -> <<"[]">>
    [] ch.t = "nomsg" -> <<"[{}]">>
    [] ch.t = "msg" ->
         IF ch.c.t = "undef" THEN <<"[{\"message\":{}}]">>
         ELSE <<"[{\"message\":{\"content\":">> \o StringifyVal(ch.c) \o <<"}}]">>
    [] OTHER -> <<>>

\* a parsed response body: JSON null, or an object with these fields
NullBody == [null |-> TRUE, assistant |-> Undef, choices |-> NoChoices,
             reply |-> Undef, error |-> Undef, message |-> Undef]
Body(a, ch, r, e, m) ==
  [null |-> FALSE, assistant |-> a, choices |-> ch, reply |-> r,
   error |-> e, message |-> m]

\* one "name":value member, when the field is present
Field(name, present, text) ==
  IF present THEN << <<"\"", name, "\":">> \o text >> ELSE <<>>

RECURSIVE JoinFields(_)
JoinFields(fs) ==
  IF fs = <<>> THEN <<>>
  ELSE IF Len(fs) = 1 THEN fs[1]
  ELSE fs[1] \o <<",">> \o JoinFields(Tail(fs))

\* JSON.stringify(data)
Stringify(d) ==
  IF d.null THEN <<"null">>
  ELSE <<"{">> \o
       JoinFields(
         Field("assistant", d.assistant.t # "undef", StringifyVal(d.assistant)) \o
         Field("choices", d.choices.t # "undef", StringifyChoices(d.choices)) \o
         Field("reply", d.reply.t # "undef", StringifyVal(d.reply)) \o
         Field("error", d.error.t # "undef", StringifyVal(d.error)) \o
         Field("message", d.message.t # "undef", StringifyVal(d.message)))
       \o <<"}">>

(* --------------------------- fixed texts ------------------------------- *)
systemMessage ==
  [role |-> "system",
   content |-> Str(<<"You are the L'Oreal Smart Product Advisor. ...">>)]
initialGreeting == <<"Hello! How can I help you today?">>
candidates == <<"secrets.js", "seret.js">>

WorkerUrlText == <<"https://loreal-worker.gaz9.workers.dev/">>
OpaqueMsg ==
  <<"Worker returned an opaque response (likely a CORS issue). ...">>
InvalidJsonPrefix == <<"Worker returned invalid JSON: ">>
ProxyUnreachableMsg ==
  <<"Unable to contact the proxy service (network/CORS/timeout). ... add a secrets.js file defining OPENAI_API_KEY or fix the worker. ...">>
KeyNotSetMsg == <<"OPENAI_API_KEY is not set. Add a secrets.js file ...">>
NoResponseMsg == <<"Sorry, I couldn't generate a response. Please try again.">>
ErrorPrefix == <<"There was an error contacting the API: ">>
FailedToFetchMsg == <<"Failed to fetch">>
AbortMsg == <<"The user aborted a request.">>
ParseErrMsg == <<"Unexpected end of JSON input">>
TypeErrMsg == <<"TypeError">>
\* `${res.status} ${res.statusText}` and `HTTP ${res.status} - ${res.statusText}`
StatusLine == <<"500", WS, "Internal Server Error">>
HttpStatusLine == <<"HTTP", WS, "500", WS, "-", WS, "Internal Server Error">>

(* ------------------- what a call returns or throws --------------------- *)
NoResult == [k |-> "none", v |-> Undef]
Return(v) == [k |-> "ret", v |-> v]
\* throw new Error(v)
Throw(v) == [k |-> "throw", v |-> Str(ErrorMessage(v))]

\* the worker's response once its body is parsed (lines 199-221)
WorkerOutcome(ok, data) ==
  IF ~ok
  THEN IF data.null THEN Throw(Str(StatusLine))
       ELSE IF data.error.t = "str" THEN Throw(data.error)
       ELSE IF Truthy(data.error) /\ Truthy(MessageOf(data.error))
            THEN Throw(MessageOf(data.error))
       ELSE IF Truthy(data.message) THEN Throw(data.message)
       ELSE Throw(Str(Stringify(data)))
  ELSE IF data.null THEN Throw(Str(TypeErrMsg))
       ELSE IF Truthy(data.assistant) THEN Return(data.assistant)
       ELSE IF data.choices.t = "msg"
            THEN IF data.choices.c.t = "str"
                 THEN Return(Str(Trim(data.choices.c.s)))
                 ELSE Throw(Str(TypeErrMsg))
       ELSE IF Truthy(data.reply) THEN Return(data.reply)
       ELSE IF Truthy(data.error)
            THEN IF Truthy(MessageOf(data.error))
                 THEN Throw(MessageOf(data.error))
                 ELSE IF data.error.t = "str" THEN Throw(data.error)
                 ELSE Throw(Str(StringifyVal(data.error)))
       ELSE Return(Str(Stringify(data)))

\* the OpenAI response once its body is parsed (lines 281-298)
OpenAIOutcome(ok, data) ==
  IF ~ok
  THEN IF ~data.null /\ Truthy(data.error)
       THEN IF Truthy(MessageOf(data.error))
            THEN Throw(MessageOf(data.error))
            ELSE Throw(data.error)
       ELSE IF ~data.null /\ Truthy(data.message) THEN Throw(data.message)
       ELSE Throw(Str(HttpStatusLine))
  ELSE IF ~data.null /\ data.choices.t = "msg" /\ Truthy(data.choices.c)
       THEN IF data.choices.c.t = "str"
            THEN Return(Str(Trim(data.choices.c.s)))
            ELSE Throw(Str(TypeErrMsg))
       ELSE Return(Str(<<>>))

(* ------------------------- response bodies ----------------------------- *)
\* the bodies a response can carry: one for each way the code reads a body
Bodies ==
  { NullBody,
    Body(Undef, NoChoices, Undef, Undef, Undef),
    Body(Str(<<"h", WS>>), NoChoices, Undef, Undef, Undef),
    Body(Str(<<>>), Choice(Str(<<WS, "h", WS>>)), Undef, Undef, Undef),
    Body(Undef, Choice(Str(<<WS>>)), Undef, Undef, Undef),
    Body(Undef, Choice(Undef), Undef, Undef, Undef),
    Body(Undef, ChoiceNoMessage, Str(<<"r">>), Undef, Undef),
    Body(Undef, EmptyChoices, Str(<<"r">>), Undef, Undef),
    Body(Undef, NoChoices, Undef, Str(<<"rate", WS, "limited">>), Undef),
    Body(Undef, NoChoices, Undef, ObjMsg(<<"m">>), Undef),
    Body(Undef, NoChoices, Undef, Obj, Undef),
    Body(Undef, NoChoices, Undef, Obj, Str(<<"msg">>)) }

\* the body a response carries: text that JSON.parse rejects, or the text
\* of one of the bodies above
Unparseable == [parses |-> FALSE, data |-> NullBody]
Parsed(d) == [parses |-> TRUE, data |-> d]
ResponseBodies == {Unparseable} \cup {Parsed(d) : d \in Bodies}

(* ------------------------------ state ---------------------------------- *)
VARIABLES
  messages,        \* the conversation history (line 84)
  inputValue,      \* userInput.value
  disabled,        \* the disabled attribute of sendBtn and userInput
  typing,          \* the typing indicator is in the chat window
  workerUrl,       \* the configured proxy URL (line 34); "" is no proxy
  OPENAI_API_KEY,  \* the global a secrets file defines
  scriptTags,      \* the candidate files that have a script tag in the page
  proc,            \* the submit handler's invocations
  submitCount,     \* submit events dispatched so far
  outcome          \* the bot message the last send has ended with, if any

vars ==
  <<messages, inputValue, disabled, typing, workerUrl, OPENAI_API_KEY,
    scriptTags, proc, submitCount, outcome>>

NoErr == [caught |-> FALSE, message |-> <<>>]
Caught(m) == [caught |-> TRUE, message |-> m]

\* an invocation: pc, the handler's text, fetchChatCompletion's
\* payloadMessages and workerErr, timeoutFetch's timer (its budget in ms, 0
\* when none is armed) and the time since it was armed, res.ok and the body
\* res carries, the index of the candidate being loaded, the requests issued, what the call returned
\* or threw, and the history's length when the handler began.
IdleProc ==
  [pc |-> "idle", text |-> <<>>, payloadMessages |-> <<>>, timer |-> 0,
   elapsed |-> 0, resOk |-> FALSE, resBody |-> Unparseable,
   workerErr |-> NoErr, cand |-> 0,
   sent |-> <<>>, result |-> NoResult, sendStart |-> 0]

KeyValue == Str(<<"sk-...">>)
NoOutcome == [kind |-> "none", text |-> Undef]

Init ==
  /\ messages = <<systemMessage, [role |-> "assistant", content |-> Str(initialGreeting)]>>
  /\ inputValue = <<>>
  /\ disabled = FALSE
  /\ typing = FALSE
  /\ workerUrl \in {WorkerUrlText, <<>>}
  \* the page may include secrets.js; the file may define the key or not
  /\ \/ OPENAI_API_KEY = KeyValue /\ scriptTags = {candidates[1]}
     \/ OPENAI_API_KEY = Undef /\ scriptTags \in {{}, {candidates[1]}}
  /\ proc = [p \in Procs |-> IdleProc]
  /\ submitCount = 0
  /\ outcome = NoOutcome

(* --------------------- the code between two awaits --------------------- *)
\* a handler is inside a task: nothing else runs until it suspends
NoTask == \A q \in Procs : proc[q].pc \notin {"call", "settled"}

\* typeof OPENAI_API_KEY !== "undefined" && OPENAI_API_KEY
KeyLoaded(key) == Truthy(key)

\* mutant of setBusy: the controls are never disabled
setBusyForgotten(isBusy) == FALSE

\* setBusy(isBusy): the disabled attribute of both controls
setBusy(isBusy) == isBusy

\* mutant of AcceptsInput: the empty-input check is missing
AcceptsInputAlways(text) == TRUE

\* if (!text) return;
AcceptsInput(text) == text # <<>>

\* mutant of PushUser: the user turn is not recorded
PushUserDropped(msgs, text) == msgs

\* messages.push({ role: "user", content: text })
PushUser(msgs, text) == Append(msgs, [role |-> "user", content |-> Str(text)])

\* mutant of PushAssistant: the assistant turn is not recorded
PushAssistantDropped(msgs, assistantText) == msgs

\* mutant of PushAssistant: the assistant turn overwrites the last turn
PushAssistantReplacing(msgs, assistantText) ==
  [msgs EXCEPT ![Len(msgs)] = [role |-> "assistant", content |-> assistantText]]

\* messages.push({ role: "assistant", content: assistantText })
PushAssistant(msgs, assistantText) ==
  Append(msgs, [role |-> "assistant", content |-> assistantText])

\* mutant of PayloadOf: the system message is left out of the payload
PayloadOfWindow(conversation) ==
  [i \in 1..(Len(conversation) - 1) |->
     [role |-> conversation[i + 1].role, content |-> conversation[i + 1].content]]

\* conversation.map((m) => ({ role: m.role, content: m.content }))
PayloadOf(conversation) ==
  [i \in 1..Len(conversation) |->
     [role |-> conversation[i].role, content |-> conversation[i].content]]

\* mutant of ScanCandidates: the check for an existing script tag is
\* missing, every call loads the candidates again
ScanCandidatesReload(i, key, tags) ==
  IF i > Len(candidates) THEN [k |-> "ret", v |-> FALSE, i |-> 0]
  ELSE [k |-> "load", v |-> FALSE, i |-> i]

\* the loop of ensureApiKeyLoaded from candidate i on, up to its return
\* (k = "ret", value v) or its next await of loadLocalScript (k = "load",
\* candidate i)
RECURSIVE ScanCandidates(_, _, _)
ScanCandidates(i, key, tags) ==
  IF i > Len(candidates) THEN [k |-> "ret", v |-> FALSE, i |-> 0]
  ELSE IF candidates[i] \in tags
       THEN IF KeyLoaded(key) THEN [k |-> "ret", v |-> TRUE, i |-> 0]
            ELSE ScanCandidates(i + 1, key, tags)
       ELSE [k |-> "load", v |-> FALSE, i |-> i]

ensureApiKeyLoaded(key, tags) ==
  IF KeyLoaded(key) THEN [k |-> "ret", v |-> TRUE, i |-> 0]
  ELSE ScanCandidates(1, key, tags)

\* fetchChatCompletion is over: its promise is settled with r
\* (its locals are gone)
Settle(P, r) ==
  [P EXCEPT !.pc = "settled", !.result = r, !.timer = 0, !.elapsed = 0,
            !.resOk = FALSE, !.resBody = Unparseable, !.cand = 0]

DirectParams == {"model=gpt-4o", "max_tokens=500", "temperature=0.2"}

\* timeoutFetch up to its await: the timer is armed and the request issued
timeoutFetch(P, url, timeout) ==
  [P EXCEPT !.sent = Append(@, [url |-> url, messages |-> P.payloadMessages,
                                params |-> IF url = "openai" THEN DirectParams ELSE {}]),
            !.timer = timeout,
            !.elapsed = 0,
            !.pc = IF url = "worker" THEN "proxy_fetch" ELSE "direct_fetch"]

\* loadLocalScript(candidates[i]): the script tag is appended, its load awaited
StartLoad(C, pcName, i) ==
  [p |-> [C.p EXCEPT !.pc = pcName, !.cand = i, !.timer = 0],
   tags |-> C.tags \cup {candidates[i]}]

\* lines 250-277, once ensureApiKeyLoaded has answered `loaded`
AfterKeyCheck(C, loaded) ==
  IF ~loaded THEN [C EXCEPT !.p = Settle(C.p, Throw(Str(KeyNotSetMsg)))]
  ELSE [C EXCEPT !.p = timeoutFetch(C.p, "openai", DirectTimeoutMs)]

\* the direct OpenAI call, lines 246-277
DirectCall(C, key) ==
  IF ~KeyLoaded(key)
  THEN LET r == ensureApiKeyLoaded(key, C.tags)
       IN IF r.k = "load" THEN StartLoad(C, "probe2", r.i)
          ELSE AfterKeyCheck(C, r.v)
  ELSE AfterKeyCheck(C, TRUE)

\* mutant of AfterFallbackCheck: the else branch is missing, the code always
\* falls through to the direct call
AfterFallbackCheckAlways(C, key, keyAvailable) ==
  DirectCall([C EXCEPT !.p.workerErr = Caught(<<>>)], key)

\* lines 232-242, once ensureApiKeyLoaded has answered `keyAvailable`
\* (below the catch block workerErr is out of scope: its message is dropped)
AfterFallbackCheck(C, key, keyAvailable) ==
  IF keyAvailable THEN DirectCall([C EXCEPT !.p.workerErr = Caught(<<>>)], key)
  ELSE [C EXCEPT !.p = Settle(C.p, Throw(Str(ProxyUnreachableMsg)))]

\* mutant of CatchWorkerErr: an aborted (timed out) request is rethrown
\* without looking for a key
CatchWorkerErrByKind(C, key, message) ==
  LET C1 == [C EXCEPT !.p.workerErr = Caught(message), !.p.timer = 0,
                      !.p.elapsed = 0, !.p.resOk = FALSE,
                      !.p.resBody = Unparseable]
      r == ensureApiKeyLoaded(key, C1.tags)
  IN IF message = AbortMsg THEN [C1 EXCEPT !.p = Settle(C1.p, Throw(Str(message)))]
     ELSE IF r.k = "load" THEN StartLoad(C1, "probe1", r.i)
     ELSE AfterFallbackCheck(C1, key, r.v)

\* mutant of CatchWorkerErr: a failed proxy request is issued once more
\* before the failure is reported
CatchWorkerErrRetry(C, key, message) ==
  IF Len(C.p.sent) < 2
  THEN [C EXCEPT !.p = timeoutFetch([C.p EXCEPT !.resOk = FALSE, !.resBody = Unparseable],
                                    "worker", ProxyTimeoutMs)]
  ELSE [C EXCEPT !.p = Settle([C.p EXCEPT !.workerErr = Caught(message)],
                              Throw(Str(message)))]

\* catch (workerErr), lines 222-243
CatchWorkerErr(C, key, message) ==
  LET C1 == [C EXCEPT !.p.workerErr = Caught(message), !.p.timer = 0,
                      !.p.elapsed = 0, !.p.resOk = FALSE,
                      !.p.resBody = Unparseable]
      r == ensureApiKeyLoaded(key, C1.tags)
  IN IF r.k = "load" THEN StartLoad(C1, "probe1", r.i)
     ELSE AfterFallbackCheck(C1, key, r.v)

Ctx(p) == [p |-> proc[p], tags |-> scriptTags]
Apply(p, C) ==
  /\ proc' = [proc EXCEPT ![p] = C.p]
  /\ scriptTags' = C.tags

\* workerUrl && workerUrl.trim() !== ""
WorkerConfigured == workerUrl # <<>> /\ Trim(workerUrl) # <<>>

(* ------------------------------ actions -------------------------------- *)
\* the user types a character into the input (possible only while it is
\* enabled)
TypeInput ==
  /\ NoTask
  /\ ~disabled
  /\ submitCount < MaxSubmits
  /\ Len(inputValue) < MaxInputLen
  /\ \E c \in Chars : inputValue' = Append(inputValue, c)
  /\ UNCHANGED <<messages, disabled, typing, workerUrl, OPENAI_API_KEY,
                 scriptTags, proc, submitCount, outcome>>

\* the user deletes the last character of the input
Backspace ==
  /\ NoTask
  /\ ~disabled
  /\ submitCount < MaxSubmits
  /\ inputValue # <<>>
  /\ inputValue' = SubSeq(inputValue, 1, Len(inputValue) - 1)
  /\ UNCHANGED <<messages, disabled, typing, workerUrl, OPENAI_API_KEY,
                 scriptTags, proc, submitCount, outcome>>

\* the submit handler up to its call of fetchChatCompletion, lines 303-318.
\* The browser submits the form only through its enabled controls.
Submit(p) ==
  /\ NoTask
  /\ ~disabled
  /\ submitCount < MaxSubmits
  /\ proc[p].pc = "idle"
  /\ \A q \in Procs : q < p => proc[q].pc # "idle"
  /\ submitCount' = submitCount + 1
  /\ LET text == Trim(inputValue)
     IN IF ~AcceptsInput(text)
        THEN UNCHANGED <<messages, inputValue, disabled, typing, proc, outcome>>
        ELSE /\ messages' = PushUser(messages, text)
             /\ outcome' = NoOutcome
             /\ inputValue' = <<>>
             /\ typing' = TRUE
             /\ disabled' = setBusy(TRUE)
             /\ proc' = [proc EXCEPT ![p] =
                          [IdleProc EXCEPT !.pc = "call", !.text = text,
                                           !.sendStart = Len(messages)]]
  /\ UNCHANGED <<workerUrl, OPENAI_API_KEY, scriptTags>>

\* fetchChatCompletion(messages) up to its first await, lines 321, 164-181
\* (or 246-277 when no worker is configured)
Call(p) ==
  /\ proc[p].pc = "call"
  /\ LET P == [proc[p] EXCEPT !.payloadMessages = PayloadOf(messages)]
     IN IF WorkerConfigured
        THEN Apply(p, [p |-> timeoutFetch(P, "worker", ProxyTimeoutMs), tags |-> scriptTags])
        ELSE Apply(p, DirectCall([p |-> P, tags |-> scriptTags], OPENAI_API_KEY))
  /\ UNCHANGED <<messages, inputValue, disabled, typing, workerUrl,
                 OPENAI_API_KEY, submitCount, outcome>>

\* mode: "cors" (line 108; the callers' opts set no mode)
FetchMode == "cors"

\* res.type of a response the browser hands to the page: a response is
\* opaque only when the request was made in mode "no-cors"
ResponseTypes(mode) == IF mode = "no-cors" THEN {"cors", "opaque"} ELSE {"cors"}

\* the worker's response arrives: lines 116-118 and 183-192
WorkerResponse(p) ==
  /\ NoTask
  /\ proc[p].pc = "proxy_fetch"
  /\ \E type \in ResponseTypes(FetchMode), ok \in BOOLEAN, body \in ResponseBodies :
       IF type = "opaque"
       THEN Apply(p, CatchWorkerErr(Ctx(p), OPENAI_API_KEY, OpaqueMsg))
       ELSE Apply(p, [p |-> [proc[p] EXCEPT !.pc = "proxy_body", !.timer = 0,
                                            !.resOk = ok, !.resBody = body],
                      tags |-> scriptTags])
  /\ UNCHANGED <<messages, inputValue, disabled, typing, workerUrl,
                 OPENAI_API_KEY, submitCount, outcome>>

\* fetch(workerUrl) rejects (network or CORS failure): lines 119-122, 222
WorkerFetchFails(p) ==
  /\ NoTask
  /\ proc[p].pc = "proxy_fetch"
  /\ Apply(p, CatchWorkerErr(Ctx(p), OPENAI_API_KEY, FailedToFetchMsg))
  /\ UNCHANGED <<messages, inputValue, disabled, typing, workerUrl,
                 OPENAI_API_KEY, submitCount, outcome>>

\* the timer's budget has run out
DeadlineReached(P) == P.timer > 0 /\ P.elapsed * TickMs >= P.timer

\* the timer fires: controller.abort() rejects the pending fetch (line 105)
TimeoutAbort(p) ==
  /\ NoTask
  /\ proc[p].pc \in {"proxy_fetch", "direct_fetch"}
  /\ DeadlineReached(proc[p])
  /\ IF proc[p].pc = "proxy_fetch"
     THEN Apply(p, CatchWorkerErr(Ctx(p), OPENAI_API_KEY, AbortMsg))
     ELSE Apply(p, [p |-> Settle(proc[p], Throw(Str(AbortMsg))), tags |-> scriptTags])
  /\ UNCHANGED <<messages, inputValue, disabled, typing, workerUrl,
                 OPENAI_API_KEY, submitCount, outcome>>

\* res.json() of the worker's response settles: lines 192-221
WorkerBody(p) ==
  /\ NoTask
  /\ proc[p].pc = "proxy_body"
  /\ IF ~proc[p].resBody.parses
     THEN Apply(p, CatchWorkerErr(Ctx(p), OPENAI_API_KEY, InvalidJsonPrefix \o ParseErrMsg))
     ELSE LET r == WorkerOutcome(proc[p].resOk, proc[p].resBody.data)
          IN IF r.k = "throw"
             THEN Apply(p, CatchWorkerErr(Ctx(p), OPENAI_API_KEY, r.v.s))
             ELSE Apply(p, [p |-> Settle(proc[p], r), tags |-> scriptTags])
  /\ UNCHANGED <<messages, inputValue, disabled, typing, workerUrl,
                 OPENAI_API_KEY, submitCount, outcome>>

\* the script tag of loadLocalScript loads or fails: lines 131-132, 157-159,
\* then the caller of ensureApiKeyLoaded goes on
ScriptSettles(p) ==
  /\ NoTask
  /\ proc[p].pc \in {"probe1", "probe2"}
  /\ \E how \in {"key", "nokey", "error"} :
       LET key == IF how = "key" THEN KeyValue ELSE OPENAI_API_KEY
           r == IF KeyLoaded(key) THEN [k |-> "ret", v |-> TRUE, i |-> 0]
                ELSE ScanCandidates(proc[p].cand + 1, key, scriptTags)
       IN /\ OPENAI_API_KEY' = key
          /\ IF r.k = "load" THEN Apply(p, StartLoad(Ctx(p), proc[p].pc, r.i))
             ELSE IF proc[p].pc = "probe1"
                  THEN Apply(p, AfterFallbackCheck(Ctx(p), key, r.v))
                  ELSE Apply(p, AfterKeyCheck(Ctx(p), r.v))
  /\ UNCHANGED <<messages, inputValue, disabled, typing, workerUrl,
                 submitCount, outcome>>

\* the OpenAI response arrives: lines 116-118 and 279
OpenAIResponse(p) ==
  /\ NoTask
  /\ proc[p].pc = "direct_fetch"
  /\ \E ok \in BOOLEAN, body \in ResponseBodies :
       proc' = [proc EXCEPT ![p] = [@ EXCEPT !.pc = "direct_body", !.timer = 0,
                                             !.resOk = ok, !.resBody = body]]
  /\ UNCHANGED <<messages, inputValue, disabled, typing, workerUrl,
                 OPENAI_API_KEY, scriptTags, submitCount, outcome>>

\* fetch(endpoint) rejects: lines 119-122
OpenAIFetchFails(p) ==
  /\ NoTask
  /\ proc[p].pc = "direct_fetch"
  /\ proc' = [proc EXCEPT ![p] = Settle(@, Throw(Str(FailedToFetchMsg)))]
  /\ UNCHANGED <<messages, inputValue, disabled, typing, workerUrl,
                 OPENAI_API_KEY, scriptTags, submitCount, outcome>>

\* res.json() of the OpenAI response settles: lines 279-298
OpenAIBody(p) ==
  /\ NoTask
  /\ proc[p].pc = "direct_body"
  /\ IF ~proc[p].resBody.parses
     THEN proc' = [proc EXCEPT ![p] = Settle(@, Throw(Str(ParseErrMsg)))]
     ELSE proc' = [proc EXCEPT ![p] =
                    Settle(@, OpenAIOutcome(proc[p].resOk, proc[p].resBody.data))]
  /\ UNCHANGED <<messages, inputValue, disabled, typing, workerUrl,
                 OPENAI_API_KEY, scriptTags, submitCount, outcome>>

\* mutant of IsEmptyText: the empty-response check is missing
IsEmptyTextNever(assistantText) == FALSE

\* if (!assistantText)
IsEmptyText(assistantText) == ~Truthy(assistantText)

\* err.message || String(err)
ErrText(m) == IF m # <<>> THEN m ELSE <<"Error">>

\* the handler resumes after its await: lines 321-348
Render(p) ==
  /\ proc[p].pc = "settled"
  /\ LET r == proc[p].result
     IN IF r.k = "ret"
        THEN IF IsEmptyText(r.v)
             THEN /\ outcome' = [kind |-> "empty", text |-> Str(NoResponseMsg)]
                  /\ UNCHANGED messages
             ELSE /\ outcome' = [kind |-> "success", text |-> r.v]
                  /\ messages' = PushAssistant(messages, r.v)
        ELSE /\ outcome' = [kind |-> "error", text |-> Str(ErrorPrefix \o ErrText(r.v.s))]
             /\ UNCHANGED messages
  /\ typing' = FALSE
  /\ disabled' = setBusy(FALSE)
  /\ proc' = [proc EXCEPT ![p] = IdleProc]
  /\ UNCHANGED <<inputValue, workerUrl, OPENAI_API_KEY, scriptTags, submitCount>>

Timed == {"proxy_fetch", "proxy_body", "direct_fetch", "direct_body"}

\* TickMs of time pass for every call in progress; a timer whose budget has
\* run out fires before more time passes
Tick ==
  /\ NoTask
  /\ \E p \in Procs : proc[p].pc \in Timed /\ proc[p].elapsed < MaxTicks
  /\ \A p \in Procs : ~DeadlineReached(proc[p])
  /\ proc' = [p \in Procs |->
               IF proc[p].pc \in Timed /\ proc[p].elapsed < MaxTicks
               THEN [proc[p] EXCEPT !.elapsed = @ + 1]
               ELSE proc[p]]
  /\ UNCHANGED <<messages, inputValue, disabled, typing, workerUrl,
                 OPENAI_API_KEY, scriptTags, submitCount, outcome>>

Next ==
  \/ TypeInput
  \/ Backspace
  \/ \E p \in Procs : Submit(p)
  \/ \E p \in Procs : Call(p)
  \/ \E p \in Procs : WorkerResponse(p)
  \/ \E p \in Procs : WorkerFetchFails(p)
  \/ \E p \in Procs : TimeoutAbort(p)
  \/ \E p \in Procs : WorkerBody(p)
  \/ \E p \in Procs : ScriptSettles(p)
  \/ \E p \in Procs : OpenAIResponse(p)
  \/ \E p \in Procs : OpenAIFetchFails(p)
  \/ \E p \in Procs : OpenAIBody(p)
  \/ \E p \in Procs : Render(p)
  \/ Tick

Spec == Init /\ [][Next]_vars

(* ------------------------------ claims --------------------------------- *)
IsPrefix(a, b) == Len(a) <= Len(b) /\ SubSeq(b, 1, Len(a)) = a
Last(q) == q[Len(q)]
UserTurn(text) == [role |-> "user", content |-> Str(text)]
Active(p) == proc[p].pc # "idle"
\* the turns of role r among messages[from..Len(messages)]
CountRole(msgs, from, r) ==
  Cardinality({i \in from..Len(msgs) : msgs[i].role = r})

C1_Inv ==
  \A p \in Procs :
    Active(p) =>
      /\ proc[p].text # <<>>
      /\ Len(messages) > proc[p].sendStart
      /\ messages[proc[p].sendStart + 1] = UserTurn(proc[p].text)
      /\ CountRole(messages, proc[p].sendStart + 1, "user") = 1

C1_Step ==
  \A p \in Procs :
    \* an accepted submit appends the trimmed text, and issues nothing yet
    /\ (~Active(p) /\ proc'[p].pc # "idle") =>
         /\ Trim(inputValue) # <<>>
         /\ messages' = Append(messages, UserTurn(Trim(inputValue)))
         /\ proc'[p].sent = <<>>
    \* a request is issued from a state whose history holds the user turn
    /\ Len(proc'[p].sent) > Len(proc[p].sent) =>
         /\ Active(p)
         /\ Last(messages) = UserTurn(proc[p].text)
         /\ messages' = messages
    \* whatever the outcome, the end of the send appends no user turn
    /\ (Active(p) /\ proc'[p].pc = "idle") =>
         CountRole(messages', 1, "user") = CountRole(messages, 1, "user")

\* C1: every submit of a non-empty trimmed text appends exactly one user
\* message {role: user, content: text} to the history, before the first
\* network request of that send is issued, whatever the outcome.
C1_UserTurnBeforeRequest == []C1_Inv /\ [][C1_Step]_vars

\* a worker request is in flight and the history ends with the user turn
C1_Witness ==
  \E p \in Procs :
    /\ proc[p].pc = "proxy_fetch"
    /\ Len(proc[p].sent) = 1
    /\ Last(messages) = UserTurn(<<"h">>)

C2_Inv == \A p \in Procs : Active(p) => Len(messages) = proc[p].sendStart + 1

C2_Step ==
  \A p \in Procs :
    (proc[p].pc = "settled" /\ proc'[p].pc = "idle") =>
      LET r == proc[p].result
          success == r.k = "ret" /\ r.v # Str(<<>>)
      IN IF success
         THEN /\ messages' = Append(messages, [role |-> "assistant", content |-> r.v])
              /\ outcome'.kind = "success"
         ELSE /\ messages' = messages
              /\ outcome'.kind \in {"empty", "error"}

\* C2: a send appends exactly one assistant message when it succeeds (a
\* non-empty assistant text came back from the proxy or the fallback) and
\* none when it fails (an error was thrown, or the text was empty).
C2_AssistantTurnIffSuccess == []C2_Inv /\ [][C2_Step]_vars

\* a failed send followed by a successful one
C2_Witness ==
  /\ \A p \in Procs : ~Active(p)
  /\ Len(messages) = 5
  /\ messages[3].role = "user"
  /\ messages[4].role = "user"
  /\ messages[5].role = "assistant"
  /\ outcome.kind = "success"

\* C3: a submit of an empty or whitespace-only input changes neither the
\* history nor the controls, and issues no request and no key probe.
C3_EmptySubmitChangesNothing ==
  [][(submitCount' # submitCount /\ Trim(inputValue) = <<>>) =>
       UNCHANGED <<messages, inputValue, disabled, typing, OPENAI_API_KEY,
                   scriptTags, proc, outcome>>]_vars

\* the last submit was of a whitespace-only input (the input cannot be
\* edited once the last submit is dispatched)
C3_Witness ==
  /\ submitCount = MaxSubmits
  /\ inputValue = <<WS>>
  /\ Len(messages) = 2
  /\ \A p \in Procs : ~Active(p)

C6_Inv ==
  /\ Len(messages) >= 2
  /\ messages[1] = systemMessage
  /\ messages[2] = [role |-> "assistant", content |-> Str(initialGreeting)]

\* C6: the history always begins with the system message and the greeting,
\* and only grows at its end: every history is a prefix of every later one.
C6_HistoryAppendOnly == []C6_Inv /\ [][IsPrefix(messages, messages')]_vars

\* two sends have grown the history
C6_Witness ==
  /\ Len(messages) >= 5
  /\ \A p \in Procs : ~Active(p)

\* the worker attempt of p ends in this step
ProxyEnds(p) ==
  /\ proc[p].pc \in {"proxy_fetch", "proxy_body"}
  /\ proc'[p].pc \notin {"proxy_fetch", "proxy_body"}

\* the worker attempt of p ends in this step by returning a value
ProxyReturns(p) ==
  /\ ProxyEnds(p)
  /\ proc'[p].pc = "settled"
  /\ proc'[p].result.k = "ret"

\* in the next state the key has been looked for, and p goes to the direct
\* call exactly when it is there (or is still loading a candidate)
FallbackDecided(p) ==
  /\ proc'[p].workerErr.caught
  /\ \/ proc'[p].pc = "probe1"
     \/ /\ proc'[p].pc = "direct_fetch"
        /\ KeyLoaded(OPENAI_API_KEY')
        /\ Last(proc'[p].sent).url = "openai"
     \/ /\ proc'[p].pc = "settled"
        /\ ~KeyLoaded(OPENAI_API_KEY')
        /\ \A i \in 1..Len(candidates) : candidates[i] \in scriptTags'
        /\ proc'[p].result = Throw(Str(ProxyUnreachableMsg))
        /\ Len(proc'[p].sent) = 1

\* C4 as stated: whenever the proxy path fails for any of the listed reasons,
\* a success body that normalizes to an empty string included, the client
\* looks for a key and goes on to the direct call iff there is one.
C4_FallbackOnAnyProxyFailure ==
  [][\A p \in Procs :
       (ProxyEnds(p) /\ ~(ProxyReturns(p) /\ proc'[p].result.v # Str(<<>>)))
         => FallbackDecided(p)]_vars

C4_Step ==
  \A p \in Procs :
    /\ (ProxyEnds(p) /\ ~ProxyReturns(p)) => FallbackDecided(p)
    /\ (proc[p].pc = "probe1" /\ proc'[p] # proc[p]) => FallbackDecided(p)
    /\ ProxyReturns(p) =>
         /\ ~proc'[p].workerErr.caught
         /\ proc'[p].sent = proc[p].sent
         /\ scriptTags' = scriptTags

\* C4 (amended): whenever the proxy path fails by throwing (network error,
\* timeout, opaque response, unparseable JSON, non-success status, an error
\* body or a malformed body) the client looks for a key and goes on to the
\* direct call iff there is one, whatever the failure was; a success body
\* that normalizes to an empty string is returned as it is, with no key
\* lookup and no fallback.
C4_FallbackOnThrownProxyFailure == [][C4_Step]_vars

\* a worker request has failed and the send has fallen back to the direct
\* call, the second candidate file having been tried
C4_Witness ==
  \E p \in Procs :
    /\ proc[p].pc = "direct_fetch"
    /\ proc[p].workerErr.caught
    /\ Len(proc[p].sent) = 2
    /\ candidates[2] \in scriptTags

\* C5: a proxy call that is not complete (response received and body read)
\* when its timeout budget has run out is cancelled: no such call is still
\* in progress a tick after the budget ran out.
C5_ProxyCallWithinBudget ==
  \A p \in Procs :
    proc[p].pc \in {"proxy_fetch", "proxy_body"} =>
      (proc[p].elapsed - 1) * TickMs < ProxyTimeoutMs

\* the tasks the browser's event loop runs without outside help: the
\* handler's own continuations, the clock and the timers.  Nothing makes the
\* remote peers answer.
\* The page is the one of the repository: workerUrl is the URL of line 34.
LiveInit == Init /\ workerUrl = WorkerUrlText

LiveSpec ==
  /\ LiveInit
  /\ [][Next]_vars
  /\ WF_vars(Tick)
  /\ \A p \in Procs : WF_vars(Call(p)) /\ WF_vars(Render(p)) /\ WF_vars(TimeoutAbort(p))

\* C7: after every accepted send the client eventually returns to idle with
\* the controls enabled again.
C7_EventuallyIdle ==
  \A p \in Procs : Active(p) ~> (~Active(p) /\ ~disabled)

C8_Step ==
  \A p \in Procs :
    Len(proc'[p].sent) > Len(proc[p].sent) =>
      LET sent == proc'[p].sent
      IN /\ Last(sent).messages = messages'
         /\ Last(Last(sent).messages) = UserTurn(proc'[p].text)
         /\ Len(sent) = 2 =>
              /\ sent[1].url = "worker" /\ sent[2].url = "openai"
              /\ sent[2].messages = sent[1].messages

\* C8: every request body carries the whole history at the time of the send,
\* in order and with the user message just appended; the direct call of a
\* send that fell back carries the messages its worker request carried.
C8_FullHistorySent == [][C8_Step]_vars

\* the second send, after a first one that succeeded, has fallen back
C8_Witness ==
  \E p \in Procs :
    /\ Len(proc[p].sent) = 2
    /\ proc[p].sent[2].url = "openai"
    /\ Len(proc[p].sent[2].messages) = 5

C9_Inv ==
  \A p \in Procs :
    /\ (proc[p].workerErr.caught /\ proc[p].pc \in {"direct_fetch", "direct_body"})
         => KeyLoaded(OPENAI_API_KEY)
    /\ (proc[p].workerErr.caught /\ ~KeyLoaded(OPENAI_API_KEY))
         => /\ proc[p].pc \in {"probe1", "settled"}
            /\ Len(proc[p].sent) = 1
            /\ proc[p].sent[1].url = "worker"
            /\ proc[p].pc = "settled" =>
                 proc[p].result = Throw(Str(ProxyUnreachableMsg))

C9_Step ==
  \A p \in Procs :
    (/\ proc[p].pc = "settled"
     /\ proc[p].workerErr.caught
     /\ ~KeyLoaded(OPENAI_API_KEY)
     /\ proc'[p].pc = "idle")
      => outcome' = [kind |-> "error", text |-> Str(ErrorPrefix \o ProxyUnreachableMsg)]

C10_Inv ==
  \A i \in 1..Len(messages) :
    /\ messages[i].content.t \notin {"undef", "null"}
    /\ messages[i].content.s # <<>>

C10_Step ==
  \A p \in Procs :
    (/\ proc[p].pc = "settled"
     /\ proc[p].result = Return(Str(<<>>))
     /\ proc'[p].pc = "idle")
      => /\ messages' = messages
         /\ outcome' = [kind |-> "empty", text |-> Str(NoResponseMsg)]

\* C10: every message of the history has a non-empty content: a user turn
\* is recorded only for a non-empty trimmed input, and no assistant turn is
\* recorded when the call returned an empty string (the outcome is then the
\* generic no-response failure).
C10_NoEmptyContent == []C10_Inv /\ [][C10_Step]_vars

\* a send whose call returned the empty string has ended
C10_Witness ==
  /\ outcome.kind = "empty"
  /\ \A p \in Procs : ~Active(p)
  /\ Len(messages) = 3
  /\ Last(messages).role = "user"

\* the five rules, in their order, as the normalization of a success body
\* is documented: the first rule that matches decides and no later is read
PriorityOrderOutcome(data) ==
  IF data.assistant.t = "str" THEN Return(data.assistant)
  ELSE IF data.choices.t = "msg" /\ data.choices.c.t = "str"
       THEN Return(Str(Trim(data.choices.c.s)))
  ELSE IF data.reply.t # "undef" THEN Return(data.reply)
  ELSE IF data.error.t # "undef"
       THEN IF data.error.t = "str" THEN Throw(data.error)
            ELSE IF Truthy(MessageOf(data.error)) THEN Throw(MessageOf(data.error))
            ELSE Throw(Str(StringifyVal(data.error)))
  ELSE Return(Str(Stringify(data)))

\* the body of the worker's success response has just been read by p
SuccessBodyRead(p) ==
  /\ proc[p].pc = "proxy_body"
  /\ proc'[p].pc # "proxy_body"
  /\ proc[p].resOk
  /\ proc[p].resBody.parses
  /\ ~proc[p].resBody.data.null

\* C11: for a proxy response with success status whose body is a JSON
\* object, the call ends as the first matching rule says: it returns
\* body.assistant when that is a string, else the trimmed
\* body.choices[0].message.content, else body.reply, else the proxy attempt
\* fails with the message of body.error when that is present, else it
\* returns the serialized body. (Once the send has gone on to the direct
\* call the caught error is out of scope and its message is not kept.)
C11_FirstMatchingRuleWins ==
  [][\A p \in Procs :
       SuccessBodyRead(p) =>
         LET r == PriorityOrderOutcome(proc[p].resBody.data)
         IN IF r.k = "ret"
            THEN proc'[p].pc = "settled" /\ proc'[p].result = r
            ELSE /\ proc'[p].workerErr.caught
                 /\ proc'[p].workerErr.message \in {r.v.s, <<>>}]_vars

\* the body of OpenAI's non-success response, a JSON object, has just been
\* read by p
FailureBodyRead(p) ==
  /\ proc[p].pc = "direct_body"
  /\ proc'[p].pc # "direct_body"
  /\ ~proc[p].resOk
  /\ proc[p].resBody.parses
  /\ ~proc[p].resBody.data.null

\* C12: for a non-success response of the direct API whose body is a JSON
\* object, the call fails with the message the proxy path extracts from the
\* same body: a string error field, else error.message, else message, else
\* the serialized body.
C12_SameFailureMessage ==
  [][\A p \in Procs :
       FailureBodyRead(p) =>
         /\ proc'[p].pc = "settled"
         /\ proc'[p].result = WorkerOutcome(FALSE, proc[p].resBody.data)]_vars

\* the endpoints of the requests p's send has issued so far, in order
Urls(p) == [i \in 1..Len(proc[p].sent) |-> proc[p].sent[i].url]

\* a proxy endpoint is configured: the URL is not blank
ProxyEndpointConfigured == Trim(workerUrl) # <<>>

C13_Inv ==
  \A p \in Procs :
    /\ ProxyEndpointConfigured =>
         /\ Urls(p) \in {<<>>, <<"worker">>, <<"worker", "openai">>}
         /\ proc[p].pc \notin {"idle", "call"} => Urls(p) # <<>>
    /\ ~ProxyEndpointConfigured => Urls(p) \in {<<>>, <<"openai">>}
    \* the direct request follows a proxy attempt that has failed
    /\ Urls(p) = <<"worker", "openai">> => proc[p].workerErr.caught
    \* while the proxy request is pending or being read, nothing else is
    /\ proc[p].pc \in {"proxy_fetch", "proxy_body"} =>
         Urls(p) = <<"worker">> /\ ~proc[p].workerErr.caught
    /\ proc[p].pc \in {"direct_fetch", "direct_body"} =>
         Last(Urls(p)) = "openai"

C13_Step ==
  \A p \in Procs :
    \* a step issues at most one request, and only the end of the send
    \* forgets the requests issued
    \/ proc'[p].sent = proc[p].sent
    \/ \E u \in {"worker", "openai"} :
         /\ Len(proc'[p].sent) = Len(proc[p].sent) + 1
         /\ IsPrefix(proc[p].sent, proc'[p].sent)
         /\ Last(proc'[p].sent).url = u
    \/ proc'[p].pc = "idle" /\ proc'[p].sent = <<>>

\* C13: within one send at most one proxy request and at most one direct
\* request are issued; the proxy request is issued if and only if a proxy
\* endpoint is configured; with a proxy configured the direct request is
\* issued only after the proxy attempt has failed, never before it or while
\* it is pending; without one the send issues no proxy request.
C13_AtMostOneRequestPerEndpoint == []C13_Inv /\ [][C13_Step]_vars

\* the proxy attempt has failed and the direct request is pending
C13_Witness ==
  \E p \in Procs :
    /\ ProxyEndpointConfigured
    /\ proc[p].pc = "direct_fetch"
    /\ Urls(p) = <<"worker", "openai">>
    /\ proc[p].workerErr.caught

Probes == {"probe1", "probe2"}

\* this step of p appends the script tag of candidate i and awaits its load
LoadStarts(p, i) ==
  /\ proc'[p].pc \in Probes
  /\ proc'[p].cand = i
  /\ proc[p].pc \notin Probes \/ proc[p].cand # i

C14_Step ==
  /\ \A p \in Procs, i \in 1..Len(candidates) :
       LoadStarts(p, i) =>
         \* the candidate has no script tag yet: it was never loaded before
         /\ candidates[i] \notin scriptTags
         /\ scriptTags' = scriptTags \cup {candidates[i]}
         \* every candidate listed before it has been attempted
         /\ \A j \in 1..(i - 1) : candidates[j] \in scriptTags
         \* no load starts once the credential is truthy
         /\ ~KeyLoaded(OPENAI_API_KEY')
  \* an attempted candidate stays attempted, and only a load attempts one
  /\ scriptTags \subseteq scriptTags'
  /\ scriptTags' # scriptTags =>
       \E p \in Procs, i \in 1..Len(candidates) : LoadStarts(p, i)
  /\ KeyLoaded(OPENAI_API_KEY) =>
       OPENAI_API_KEY' = OPENAI_API_KEY /\ scriptTags' = scriptTags

\* C14: credential discovery loads the candidates in their listed order,
\* starts no load once the credential is truthy (none at all when it is
\* already defined), and never loads a candidate that was attempted before,
\* in this send or an earlier one, even if that attempt failed.
C14_EachCandidateProbedOnce == [][C14_Step]_vars

\* a second send has failed for want of a key after the first send had
\* attempted both candidates in vain
C14_Witness ==
  \E p \in Procs :
    /\ CountRole(messages, 1, "user") = 2
    /\ proc[p].pc = "settled"
    /\ proc[p].workerErr.caught
    /\ scriptTags = {candidates[1], candidates[2]}
    /\ ~KeyLoaded(OPENAI_API_KEY)

\* the sends in flight: the handler invocations between an accepted submit
\* and the rendering of its outcome
InFlight == {p \in Procs : Active(p)}

C15_Inv ==
  /\ Cardinality(InFlight) <= 1
  \* the controls are busy for as long as a send is in flight
  /\ InFlight # {} => disabled

C15_Step ==
  \* a submit is accepted only when no send is in flight
  /\ (\E p \in Procs : ~Active(p) /\ proc'[p].pc # "idle") => InFlight = {}
  \* no user message is appended while a request is outstanding
  /\ CountRole(messages', 1, "user") # CountRole(messages, 1, "user") => InFlight = {}
  \* the controls are re-enabled when the outcome has been rendered
  /\ \A p \in Procs :
       (Active(p) /\ proc'[p].pc = "idle") => (~disabled' /\ outcome'.kind # "none")
  /\ (disabled /\ ~disabled') => \E p \in Procs : Active(p) /\ proc'[p].pc = "idle"

\* C15: at most one send is in flight at any time: from the accepted submit
\* that marks the controls busy until its outcome is rendered and the
\* controls are re-enabled no second submit is processed, so no two calls
\* of fetchChatCompletion overlap and no user message is appended to the
\* history while a request is outstanding.
C15_OneSendInFlight == []C15_Inv /\ [][C15_Step]_vars

\* the second send is in flight, the first one over
C15_Witness ==
  \E p \in Procs :
    /\ CountRole(messages, 1, "user") = 2
    /\ proc[p].pc \in {"proxy_fetch", "direct_fetch"}
    /\ InFlight = {p}
    /\ disabled

====
